---- MODULE Spec2Model ----
(***************************************************************************)
(* Model of go-mirgrate-directus: the DirectusClient (GetSnapshot,         *)
(* GetDiff, ApplyDiff), the Migrate orchestrator and the main program.     *)
(*                                                                         *)
(* Strings that the code concatenates (addresses, tokens, request URLs,    *)
(* error texts) are sequences of pieces, so that fmt.Sprintf / fmt.Errorf  *)
(* are concatenations.  JSON texts are trees as they stand on the wire     *)
(* (objects keep the order and the duplicates of their members, numbers    *)
(* keep their literal); Go values are what encoding/json decodes them to.  *)
(* A response body is the bytes the body stream delivers to the client.    *)
(***************************************************************************)
EXTENDS Integers, Sequences, FiniteSets, TLC

VARIABLES
    pc,            \* position of main: "load", "parse", "migrate", "exit"
    env,           \* the .env file / process environment main reads
    exitCode,      \* exit status of the process, -1 while it runs
    args,          \* the arguments Migrate was called with
    mstate,        \* position of Migrate
    baseClient,    \* *DirectusClient built from baseURL, baseToken
    targetClient,  \* *DirectusClient built from targetURL, targetToken
    inflight,      \* the request HTTPClient.Do is blocked on, or NoRequest
    requests,      \* every request handed to HTTPClient.Do, in order
    responses,     \* what each Do gave back (a response or an error), in order
    snapshot,      \* what baseClient.GetSnapshot() gave Migrate
    diff,          \* what targetClient.GetDiff(snapshot, force) gave Migrate
    applied,       \* what targetClient.ApplyDiff(diff) gave Migrate
    err            \* the error Migrate returned (a text), <<>> when nil

vars == <<pc, env, exitCode, args, mstate, baseClient, targetClient,
          inflight, requests, responses, snapshot, diff, applied, err>>

----------------------------------------------------------------------------
(* Bounds of the model                                                     *)

\* how many of the payload documents of PayloadList the instances answer with
NumPayloads == 2
\* how many of the non-object `data` values of BadDataList they answer with
NumBadData == 2

Min(a, b) == IF a < b THEN a ELSE b

----------------------------------------------------------------------------
(* Program constants                                                       *)

StatusOK == 200
StatusNoContent == 204

\* an ASCII control character: net/url refuses a URL that holds one
CTL == "<0x7f>"
ForceFlag == "&force=true"
SnapshotPath == "/schema/snapshot?access_token="
DiffPath == "/schema/diff?access_token="
ApplyPath == "/schema/apply?access_token="

----------------------------------------------------------------------------
(* JSON texts                                                              *)

JNull == [t |-> "null"]
JNum(lit) == [t |-> "num", v |-> lit]
JStr(s) == [t |-> "str", v |-> s]
JArr(e) == [t |-> "arr", e |-> e]
\* members: a sequence of <<key, value>> pairs, in wire order
JObj(m) == [t |-> "obj", m |-> m]

\* Go values (any): nil, float64, string, []any, map[string]any
GNil == [g |-> "nil"]
GFloat(f) == [g |-> "float64", v |-> f]
GString(s) == [g |-> "string", v |-> s]
GSlice(e) == [g |-> "slice", e |-> e]
GMap(m) == [g |-> "map", m |-> m]
\* the nil map[string]any
GNilMap == [g |-> "nilmap"]

\* every object key of the model, in byte order (json.Marshal sorts map keys)
KeyOrder == <<"changes", "data", "error", "fields", "id", "version">>

\* strconv.ParseFloat(lit, 64) followed by strconv.FormatFloat(f, 'f'/'e', -1, 64)
\* as encoding/json writes a float64: the shortest text of the nearest float64
Float64Of(lit) ==
    CASE lit = "1" -> "1"
      [] lit = "1.0" -> "1"
      [] lit = "9007199254740993" -> "9007199254740992"
      [] OTHER -> lit

KeysOf(m) == {m[i][1] : i \in DOMAIN m}

\* the member of key k that a decoder stores last
LastIndex(m, k) ==
    CHOOSE i \in DOMAIN m :
        /\ m[i][1] = k
        /\ \A j \in DOMAIN m : m[j][1] = k => j <= i

RECURSIVE ToGo(_)
\* json.Unmarshal of a JSON text into an `any`
ToGo(j) ==
    CASE j.t = "null" -> GNil
      [] j.t = "num" -> GFloat(Float64Of(j.v))
      [] j.t = "str" -> GString(j.v)
      [] j.t = "arr" -> GSlice([i \in DOMAIN j.e |-> ToGo(j.e[i])])
      [] j.t = "obj" -> GMap([k \in KeysOf(j.m) |-> ToGo(j.m[LastIndex(j.m, k)][2])])

RECURSIVE SortedKeys(_, _)
SortedKeys(keys, i) ==
    IF i > Len(KeyOrder) THEN <<>>
    ELSE (IF KeyOrder[i] \in keys THEN <<KeyOrder[i]>> ELSE <<>>)
             \o SortedKeys(keys, i + 1)

RECURSIVE Marshal(_)
\* json.Marshal of a Go value that json decoded
Marshal(g) ==
    CASE g.g = "nil" -> JNull
      [] g.g = "nilmap" -> JNull
      [] g.g = "float64" -> JNum(g.v)
      [] g.g = "string" -> JStr(g.v)
      [] g.g = "slice" -> JArr([i \in DOMAIN g.e |-> Marshal(g.e[i])])
      [] g.g = "map" ->
            LET ks == SortedKeys(DOMAIN g.m, 1)
            IN JObj([i \in DOMAIN ks |-> <<ks[i], Marshal(g.m[ks[i]])>>])

----------------------------------------------------------------------------
(* Response bodies, responses, errors                                      *)

\* bytes that are no JSON text ("" is the empty body)
TextBody(s) == [k |-> "text", text |-> s, json |-> JNull]
JsonBody(j) == [k |-> "json", text |-> "", json |-> j]
NoBody == TextBody("")

\* the documents an instance may answer with (snapshot or diff)
PayloadList ==
    << JObj(<< <<"version", JNum("1")>>, <<"fields", JArr(<<JStr("a")>>)>> >>),
       JObj(<< <<"id", JNum("9007199254740993")>> >>),
       JObj(<< <<"changes", JArr(<<>>)>> >>),
       JObj(<<>>) >>

Payloads == {PayloadList[i] : i \in 1..Min(NumPayloads, Len(PayloadList))}

\* `data` values that are no mapping
BadDataList == <<JNull, JArr(<<>>), JNum("1"), JStr("x")>>

BadData == {BadDataList[i] : i \in 1..Min(NumBadData, Len(BadDataList))}

Envelope(x) == JObj(<< <<"data", x>> >>)

Bodies ==
    {TextBody(""), TextBody("internal error")}
        \cup {JsonBody(JNull), JsonBody(JArr(<<>>)), JsonBody(JObj(<<>>)),
              JsonBody(JObj(<< <<"error", JStr("conflict")>> >>))}
        \cup {JsonBody(Envelope(x)) : x \in Payloads \cup BadData}

Statuses == {StatusOK, StatusNoContent, 400, 500}

HTTPResponse(status, body) ==
    [kind |-> "http", StatusCode |-> status, Body |-> body, cause |-> ""]
\* HTTPClient.Do returned an error instead of a response
NetError(cause) ==
    [kind |-> "neterr", StatusCode |-> 0, Body |-> NoBody, cause |-> cause]

Responses ==
    {HTTPResponse(s, b) : s \in Statuses, b \in Bodies}
        \cup {NetError("connection refused")}

\* pieces of an error text
Txt(s) == [k |-> "txt", s |-> s, n |-> 0, b |-> NoBody]
\* %d of a status code
Dec(n) == [k |-> "int", s |-> "", n |-> n, b |-> NoBody]
\* %s of the bytes read from a body
Bytes(b) == [k |-> "bytes", s |-> "", n |-> 0, b |-> b]

\* fmt.Errorf(prefix + ": %w", e)
Wrap(prefix, e) == <<Txt(prefix)>> \o e

\* what a call gave its caller: a value (GNilMap is nil) and an error (<<>> is
\* nil), or a panic that unwinds the caller
Ret(val, e) == [kind |-> "ret", val |-> val, err |-> e]
Panic(msg) == [kind |-> "panic", val |-> GNilMap, err |-> <<Txt(msg)>>]
NoResult == [kind |-> "none", val |-> GNilMap, err |-> <<>>]

Failed(r) == r.kind = "ret" /\ r.err # <<>>
Succeeded(r) == r.kind = "ret" /\ r.err = <<>>

\* json.NewDecoder(body).Decode(&result) with result a nil map[string]any
Decode(body) ==
    IF body.k = "text"
    THEN [val |-> GNilMap,
          err |-> <<Txt(IF body.text = "" THEN "EOF" ELSE "invalid character")>>]
    ELSE CASE body.json.t = "null" -> [val |-> GNilMap, err |-> <<>>]
           [] body.json.t = "obj" -> [val |-> ToGo(body.json), err |-> <<>>]
           [] OTHER ->
                [val |-> GNilMap,
                 err |-> <<Txt("json: cannot unmarshal "), Txt(body.json.t),
                           Txt(" into Go value of type map[string]interface {}")>>]

\* Unwrap with `data, _ := result["data"]` and a checked assertion: a missing
\* `data` comes back as a nil payload and a nil error
UnwrapUnchecked(result, what) ==
    IF result.g = "map" /\ "data" \in DOMAIN result.m
    THEN IF result.m["data"].g = "map"
         THEN Ret(result.m["data"], <<>>)
         ELSE Panic("interface conversion: interface {} is not map[string]interface {}")
    ELSE Ret(GNilMap, <<>>)

\* data, ok := result["data"]; return data.(map[string]any), nil
Unwrap(result, what) ==
    IF result.g = "map" /\ "data" \in DOMAIN result.m
    THEN IF result.m["data"].g = "map"
         THEN Ret(result.m["data"], <<>>)
         ELSE Panic("interface conversion: interface {} is not map[string]interface {}")
    ELSE Ret(GNilMap, <<Txt(what), Txt(" response does not contain 'data' field")>>)

----------------------------------------------------------------------------
(* DirectusClient                                                          *)

NoClient == [URL |-> <<>>, AccessToken |-> <<>>]

\* NewDirectusClient keeping the token in a package-level variable that the
\* first construction (the base's) sets
NewDirectusClientSharedToken(url, accessToken) ==
    [URL |-> url, AccessToken |-> <<"tokB">>]

NewDirectusClient(url, accessToken) == [URL |-> url, AccessToken |-> accessToken]

NoRequest == [Method |-> "", URL |-> <<>>, ContentType |-> "", Body |-> JNull,
              HasBody |-> FALSE]

\* http.NewRequest: the URL must parse
NewRequest(method, url, hasBody, body) ==
    IF \E i \in DOMAIN url : url[i] = CTL
    THEN [req |-> NoRequest, err |-> <<Txt("net/url: invalid control character in URL")>>]
    ELSE [req |-> [Method |-> method, URL |-> url, ContentType |-> "",
                   Body |-> body, HasBody |-> hasBody],
          err |-> <<>>]

SnapshotURL(c) == c.URL \o <<SnapshotPath>> \o c.AccessToken

DiffURL(c, force) ==
    c.URL \o <<DiffPath>> \o c.AccessToken
        \o (IF force THEN <<ForceFlag>> ELSE <<>>)

ApplyURL(c) == c.URL \o <<ApplyPath>> \o c.AccessToken

\* GetSnapshot up to HTTPClient.Do: the request, or the error it returns
GetSnapshotRequest(c) ==
    LET r == NewRequest("GET", SnapshotURL(c), FALSE, JNull)
    IN IF r.err # <<>>
       THEN [req |-> NoRequest, err |-> Wrap("failed to create snapshot request: ", r.err)]
       ELSE r

\* GetDiff up to HTTPClient.Do
GetDiffRequest(c, snap, force) ==
    LET r == NewRequest("POST", DiffURL(c, force), TRUE, Marshal(snap))
    IN IF r.err # <<>>
       THEN [req |-> NoRequest, err |-> Wrap("failed to create diff request: ", r.err)]
       ELSE [req |-> [r.req EXCEPT !.ContentType = "application/json"], err |-> <<>>]

\* ApplyDiff up to HTTPClient.Do
ApplyDiffRequest(c, d) ==
    LET r == NewRequest("POST", ApplyURL(c), TRUE, Marshal(d))
    IN IF r.err # <<>>
       THEN [req |-> NoRequest, err |-> Wrap("failed to create apply request: ", r.err)]
       ELSE [req |-> [r.req EXCEPT !.ContentType = "application/json"], err |-> <<>>]

\* ExpectedStatus accepting the whole 2xx range
ExpectedStatus2xx(resp) == resp.StatusCode \in 200..299

\* the status a payload-bearing response must have
ExpectedStatus(resp) == resp.StatusCode = StatusOK

\* ExpectedApplyStatus accepting the whole 2xx range
ExpectedApplyStatus2xx(resp) == resp.StatusCode \in 200..299

\* the status an apply response must have
ExpectedApplyStatus(resp) == resp.StatusCode = StatusNoContent

\* "<what> request failed with status %d: %s"
StatusError(what, resp) ==
    <<Txt(what), Txt(" request failed with status "), Dec(resp.StatusCode),
      Txt(": "), Bytes(resp.Body)>>

\* a payload-bearing call (GetSnapshot, GetDiff) from the return of Do on
PayloadResult(what, resp) ==
    IF resp.kind = "neterr"
    THEN Ret(GNilMap, <<Txt("failed to execute "), Txt(what), Txt(" request: "),
                        Txt(resp.cause)>>)
    ELSE IF ~ExpectedStatus(resp)
    THEN Ret(GNilMap, StatusError(what, resp))
    ELSE LET d == Decode(resp.Body)
         IN IF d.err # <<>>
            THEN Ret(GNilMap, <<Txt("failed to decode "), Txt(what),
                                Txt(" response: ")>> \o d.err)
            ELSE Unwrap(d.val, what)

GetSnapshotResult(resp) == PayloadResult("snapshot", resp)

GetDiffResult(resp) == PayloadResult("diff", resp)

ApplyDiffResult(resp) ==
    IF resp.kind = "neterr"
    THEN Ret(GNilMap, <<Txt("failed to execute apply request: "), Txt(resp.cause)>>)
    ELSE IF ~ExpectedApplyStatus(resp)
    THEN Ret(GNilMap, StatusError("apply", resp))
    ELSE Ret(GNilMap, <<>>)

----------------------------------------------------------------------------
(* Migrate                                                                 *)

SnapshotLabel == "failed to get snapshot: "
DiffLabel == "failed to get diff: "
ApplyLabel == "failed to apply diff: "

Successor(state) ==
    CASE state = "SNAPSHOT_PENDING" -> "DIFF_PENDING"
      [] state = "DIFF_PENDING" -> "APPLY_PENDING"
      [] state = "APPLY_PENDING" -> "DONE"

\* AfterStep without the `if err != nil { return ... }` after the call
AfterStepIgnoringError(state, r) ==
    IF r.kind = "panic" THEN "PANICKED" ELSE Successor(state)

\* AfterStep with a retry of the step whose call returned an error
AfterStepRetry(state, r) ==
    IF r.kind = "panic" THEN "PANICKED"
    ELSE IF r.err # <<>> THEN state
    ELSE Successor(state)

\* where Migrate stands once the call of its current step gave r:
\* `if err != nil { return ... }`, else the next statement; a panic unwinds it
AfterStep(state, r) ==
    IF r.kind = "panic" THEN "PANICKED"
    ELSE IF r.err # <<>> THEN "FAILED"
    ELSE Successor(state)

\* MigrateError with errors.New(label) in place of fmt.Errorf(label + "%w", err)
MigrateErrorOpaque(label, r) ==
    IF r.kind = "ret" /\ r.err # <<>> THEN <<Txt(label)>> ELSE <<>>

\* what Migrate returns when the call of a step gave r
MigrateError(label, r) ==
    IF r.kind = "ret" /\ r.err # <<>> THEN Wrap(label, r.err) ELSE <<>>

\* Migrate from its entry to the Do of GetSnapshot
SnapshotSend ==
    /\ mstate = "SNAPSHOT_PENDING"
    /\ inflight = NoRequest
    /\ snapshot = NoResult
    /\ LET b == NewDirectusClient(args.baseURL, args.baseToken)
           t == NewDirectusClient(args.targetURL, args.targetToken)
           r == GetSnapshotRequest(b)
       IN /\ baseClient' = b
          /\ targetClient' = t
          /\ IF r.err # <<>>
             THEN /\ snapshot' = Ret(GNilMap, r.err)
                  /\ mstate' = AfterStep(mstate, Ret(GNilMap, r.err))
                  /\ err' = MigrateError(SnapshotLabel, Ret(GNilMap, r.err))
                  /\ UNCHANGED <<inflight, requests>>
             ELSE /\ inflight' = r.req
                  /\ requests' = Append(requests, r.req)
                  /\ UNCHANGED <<snapshot, mstate, err>>
    /\ UNCHANGED <<pc, env, exitCode, args, responses, diff, applied>>

\* GetSnapshot from the return of Do, and Migrate's check of its result
SnapshotReturn ==
    /\ mstate = "SNAPSHOT_PENDING"
    /\ inflight # NoRequest
    /\ \E resp \in Responses :
          LET r == GetSnapshotResult(resp)
          IN /\ responses' = Append(responses, resp)
             /\ snapshot' = r
             /\ mstate' = AfterStep(mstate, r)
             /\ err' = MigrateError(SnapshotLabel, r)
    /\ inflight' = NoRequest
    /\ UNCHANGED <<pc, env, exitCode, args, baseClient, targetClient, requests,
                   diff, applied>>

\* DiffSend started beside GetSnapshot (`go`), not after its return
DiffSendConcurrent ==
    /\ mstate = "SNAPSHOT_PENDING"
    /\ inflight # NoRequest
    /\ Len(requests) = 1
    /\ LET r == GetDiffRequest(targetClient, snapshot.val, args.force)
       IN /\ r.err = <<>>
          /\ requests' = Append(requests, r.req)
    /\ UNCHANGED <<pc, env, exitCode, args, mstate, baseClient, targetClient,
                   inflight, responses, snapshot, diff, applied, err>>

\* Migrate's call of GetDiff up to its Do
DiffSend ==
    /\ mstate = "DIFF_PENDING"
    /\ inflight = NoRequest
    /\ LET r == GetDiffRequest(targetClient, snapshot.val, args.force)
       IN IF r.err # <<>>
          THEN /\ diff' = Ret(GNilMap, r.err)
               /\ mstate' = AfterStep(mstate, Ret(GNilMap, r.err))
               /\ err' = MigrateError(DiffLabel, Ret(GNilMap, r.err))
               /\ UNCHANGED <<inflight, requests>>
          ELSE /\ inflight' = r.req
               /\ requests' = Append(requests, r.req)
               /\ UNCHANGED <<diff, mstate, err>>
    /\ UNCHANGED <<pc, env, exitCode, args, baseClient, targetClient, responses,
                   snapshot, applied>>

\* GetDiff from the return of Do, and Migrate's check of its result
DiffReturn ==
    /\ mstate = "DIFF_PENDING"
    /\ inflight # NoRequest
    /\ \E resp \in Responses :
          LET r == GetDiffResult(resp)
          IN /\ responses' = Append(responses, resp)
             /\ diff' = r
             /\ mstate' = AfterStep(mstate, r)
             /\ err' = MigrateError(DiffLabel, r)
    /\ inflight' = NoRequest
    /\ UNCHANGED <<pc, env, exitCode, args, baseClient, targetClient, requests,
                   snapshot, applied>>

\* Migrate's call of ApplyDiff up to its Do
ApplySend ==
    /\ mstate = "APPLY_PENDING"
    /\ inflight = NoRequest
    /\ LET r == ApplyDiffRequest(targetClient, diff.val)
       IN IF r.err # <<>>
          THEN /\ applied' = Ret(GNilMap, r.err)
               /\ mstate' = AfterStep(mstate, Ret(GNilMap, r.err))
               /\ err' = MigrateError(ApplyLabel, Ret(GNilMap, r.err))
               /\ UNCHANGED <<inflight, requests>>
          ELSE /\ inflight' = r.req
               /\ requests' = Append(requests, r.req)
               /\ UNCHANGED <<applied, mstate, err>>
    /\ UNCHANGED <<pc, env, exitCode, args, baseClient, targetClient, responses,
                   snapshot, diff>>

\* ApplyDiff from the return of Do, and Migrate's check of its result
ApplyReturn ==
    /\ mstate = "APPLY_PENDING"
    /\ inflight # NoRequest
    /\ \E resp \in Responses :
          LET r == ApplyDiffResult(resp)
          IN /\ responses' = Append(responses, resp)
             /\ applied' = r
             /\ mstate' = AfterStep(mstate, r)
             /\ err' = MigrateError(ApplyLabel, r)
    /\ inflight' = NoRequest
    /\ UNCHANGED <<pc, env, exitCode, args, baseClient, targetClient, requests,
                   snapshot, diff>>

----------------------------------------------------------------------------
(* main                                                                    *)

GoodBaseURL == <<"http://base.example">>
GoodTargetURL == <<"http://target.example">>

Envs ==
    [loadable : BOOLEAN,
     BASE_URL : {GoodBaseURL, <<"http://base.example", CTL>>},
     BASE_TOKEN : {<<"tokB">>},
     TARGET_URL : {GoodTargetURL, <<"http://target.example", CTL>>},
     TARGET_TOKEN : {<<"tokT">>, <<"tokT", ForceFlag>>},
     FORCE : {"true", "0", "", "yes"}]

\* ParseBool with its error dropped (`force, _ := strconv.ParseBool(...)`)
ParseBoolIgnoringError(str) ==
    [val |-> str \in {"1", "t", "T", "TRUE", "true", "True"}, ok |-> TRUE]

\* strconv.ParseBool
ParseBool(str) ==
    IF str \in {"1", "t", "T", "TRUE", "true", "True"}
    THEN [val |-> TRUE, ok |-> TRUE]
    ELSE IF str \in {"0", "f", "F", "FALSE", "false", "False"}
    THEN [val |-> FALSE, ok |-> TRUE]
    ELSE [val |-> FALSE, ok |-> FALSE]

NoArgs == [baseURL |-> <<>>, baseToken |-> <<>>, targetURL |-> <<>>,
           targetToken |-> <<>>, force |-> FALSE]

\* godotenv.Load(); log.Fatal exits with status 1
MainLoad ==
    /\ pc = "load"
    /\ IF env.loadable
       THEN pc' = "parse" /\ UNCHANGED exitCode
       ELSE pc' = "exit" /\ exitCode' = 1
    /\ UNCHANGED <<env, args, mstate, baseClient, targetClient, inflight,
                   requests, responses, snapshot, diff, applied, err>>

\* the os.Getenv calls, strconv.ParseBool and the call of Migrate
MainParse ==
    /\ pc = "parse"
    /\ LET b == ParseBool(env.FORCE)
       IN IF b.ok
          THEN /\ pc' = "migrate"
               /\ args' = [baseURL |-> env.BASE_URL, baseToken |-> env.BASE_TOKEN,
                           targetURL |-> env.TARGET_URL,
                           targetToken |-> env.TARGET_TOKEN, force |-> b.val]
               /\ mstate' = "SNAPSHOT_PENDING"
               /\ UNCHANGED exitCode
          ELSE /\ pc' = "exit"
               /\ exitCode' = 1
               /\ UNCHANGED <<args, mstate>>
    /\ UNCHANGED <<env, baseClient, targetClient, inflight, requests,
                   responses, snapshot, diff, applied, err>>

\* Migrate came back: exit 0, os.Exit(1) on an error, 2 on a panic
MainExit ==
    /\ pc = "migrate"
    /\ mstate \in {"DONE", "FAILED", "PANICKED"}
    /\ pc' = "exit"
    /\ exitCode' = (CASE mstate = "DONE" -> 0
                      [] mstate = "FAILED" -> 1
                      [] mstate = "PANICKED" -> 2)
    /\ UNCHANGED <<env, args, mstate, baseClient, targetClient, inflight,
                   requests, responses, snapshot, diff, applied, err>>

Init ==
    /\ pc = "load"
    /\ env \in Envs
    /\ exitCode = -1
    /\ args = NoArgs
    /\ mstate = "IDLE"
    /\ baseClient = NoClient
    /\ targetClient = NoClient
    /\ inflight = NoRequest
    /\ requests = <<>>
    /\ responses = <<>>
    /\ snapshot = NoResult
    /\ diff = NoResult
    /\ applied = NoResult
    /\ err = <<>>

Next ==
    \/ MainLoad
    \/ MainParse
    \/ SnapshotSend
    \/ SnapshotReturn
    \/ DiffSend
    \/ DiffReturn
    \/ ApplySend
    \/ ApplyReturn
    \/ MainExit

Spec == Init /\ [][Next]_vars

----------------------------------------------------------------------------
(* Vocabulary of the properties                                            *)

Terminal == mstate \in {"DONE", "FAILED", "PANICKED"}

\* the endpoint a request addresses: the path piece of its URL
Addresses(req, path) == \E i \in DOMAIN req.URL : req.URL[i] = path

RequestsTo(path) == {i \in DOMAIN requests : Addresses(requests[i], path)}

\* an error text contains a piece
Contains(e, piece) == \E i \in DOMAIN e : e[i] = piece

\* the result of the client call that received responses[i]
ResultOf(i) ==
    CASE i = 1 -> snapshot
      [] i = 2 -> diff
      [] i = 3 -> applied

\* the status the call that received responses[i] expects
ExpectedOf(i) == IF i = 3 THEN 204 ELSE 200

\* the members of a JSON object text named k
Members(j, k) == {i \in DOMAIN j.m : j.m[i][1] = k}

\* a body that is a JSON object or null without a `data` member
LacksData(body) ==
    /\ body.k = "json"
    /\ \/ body.json.t = "null"
       \/ body.json.t = "obj" /\ Members(body.json, "data") = {}

\* a body {data: X} with one `data` member
HasData(body) ==
    /\ body.k = "json"
    /\ body.json.t = "obj"
    /\ Cardinality(Members(body.json, "data")) = 1

DataOf(body) == body.json.m[CHOOSE i \in Members(body.json, "data") : TRUE][2]

\* a 200 response carrying {data: X} with X a mapping
WellFormed(resp) ==
    /\ resp.kind = "http"
    /\ resp.StatusCode = 200
    /\ HasData(resp.Body)
    /\ DataOf(resp.Body).t = "obj"

----------------------------------------------------------------------------
(* C1: whenever GetSnapshot returned an error (request construction,       *)
(* transport error, non-200 status, undecodable body, missing `data`),     *)
(* Migrate is in FAILED with a non-nil error and no request was ever       *)
(* handed to the diff or the apply endpoint, at this or any later point.   *)
C1_FailFastAtSnapshot ==
    Failed(snapshot) =>
        /\ mstate = "FAILED"
        /\ err # <<>>
        /\ RequestsTo(DiffPath) = {}
        /\ RequestsTo(ApplyPath) = {}
        /\ Len(requests) <= 1
        /\ diff = NoResult
        /\ applied = NoResult

\* the process has ended after a snapshot request that the base rejected
C1_Witness ==
    /\ pc = "exit"
    /\ Failed(snapshot)
    /\ Len(responses) = 1
    /\ responses[1].kind = "http"
    /\ responses[1].StatusCode = 500

(* C2: whenever GetSnapshot succeeded and GetDiff failed, for any reason,   *)
(* Migrate is in FAILED with a non-nil error to return and no request was  *)
(* handed to the apply endpoint.                                           *)
C2_FailFastAtDiff ==
    (Succeeded(snapshot) /\ (Failed(diff) \/ diff.kind = "panic")) =>
        /\ mstate = "FAILED"
        /\ err # <<>>
        /\ RequestsTo(ApplyPath) = {}
        /\ applied = NoResult

\* the three answers of a run that must succeed
AllThreeAnswered ==
    /\ Len(responses) = 3
    /\ WellFormed(responses[1])
    /\ WellFormed(responses[2])
    /\ responses[3].kind = "http"
    /\ responses[3].StatusCode = 204

(* C3: once Migrate has ended, it has ended in DONE (nil error) exactly     *)
(* when the snapshot request was answered with 200 and a `data` mapping,   *)
(* then the diff request likewise, then the apply request with 204; and in *)
(* DONE exactly three requests were sent, the first to the snapshot        *)
(* endpoint, the second to the diff endpoint, the third to the apply       *)
(* endpoint.                                                               *)
C3_SuccessIffAllThree ==
    Terminal =>
        /\ (mstate = "DONE") <=> AllThreeAnswered
        /\ mstate = "DONE" =>
              /\ err = <<>>
              /\ Len(requests) = 3
              /\ RequestsTo(SnapshotPath) = {1}
              /\ RequestsTo(DiffPath) = {2}
              /\ RequestsTo(ApplyPath) = {3}

\* a run that succeeded and left the process with status 0
C3_Witness == pc = "exit" /\ mstate = "DONE" /\ exitCode = 0 /\ AllThreeAnswered

(* C4: every response with a status other than the expected one (200 for   *)
(* GetSnapshot and GetDiff, 204 for ApplyDiff) makes the call return a nil *)
(* payload and an error whose text holds that status code and the bytes of *)
(* the body, whatever the body is.                                         *)
C4_UnexpectedStatusIsError ==
    \A i \in DOMAIN responses :
        (responses[i].kind = "http" /\ responses[i].StatusCode # ExpectedOf(i)) =>
            LET r == ResultOf(i)
            IN /\ r.kind = "ret"
               /\ r.val = GNilMap
               /\ r.err # <<>>
               /\ Contains(r.err, Dec(responses[i].StatusCode))
               /\ Contains(r.err, Bytes(responses[i].Body))

\* a 204 answer to the snapshot request that carries a good envelope, and a
\* 200 answer to an apply request
C4_Witness ==
    \/ /\ Len(responses) = 1
       /\ responses[1].kind = "http"
       /\ responses[1].StatusCode = 204
       /\ HasData(responses[1].Body)
       /\ DataOf(responses[1].Body).t = "obj"
       /\ Failed(snapshot)
    \/ /\ Len(responses) = 3
       /\ responses[3].kind = "http"
       /\ responses[3].StatusCode = 200
       /\ Failed(applied)

(* C5: every 200 response to GetSnapshot or GetDiff whose body decodes     *)
(* without a `data` key makes the call return the "does not contain 'data' *)
(* field" error and a nil payload, never a nil error.                      *)
C5_MissingDataIsError ==
    \A i \in DOMAIN responses :
        (/\ i \in {1, 2}
         /\ responses[i].kind = "http"
         /\ responses[i].StatusCode = 200
         /\ LacksData(responses[i].Body)) =>
            LET r == ResultOf(i)
            IN /\ r.kind = "ret"
               /\ r.val = GNilMap
               /\ r.err # <<>>
               /\ Contains(r.err, Txt(" response does not contain 'data' field"))

\* the diff request was answered with 200 and the body {}
C5_Witness ==
    /\ Len(responses) = 2
    /\ responses[2].kind = "http"
    /\ responses[2].StatusCode = 200
    /\ responses[2].Body = JsonBody(JObj(<<>>))
    /\ Failed(diff)

(* C6: every 200 response to GetSnapshot or GetDiff whose `data` is        *)
(* present but no mapping makes the call return an error, and Migrate ends *)
(* in FAILED with a non-nil error.                                         *)
C6_WrongShapeIsFailure ==
    \A i \in DOMAIN responses :
        (/\ i \in {1, 2}
         /\ responses[i].kind = "http"
         /\ responses[i].StatusCode = 200
         /\ HasData(responses[i].Body)
         /\ DataOf(responses[i].Body).t # "obj") =>
            /\ Failed(ResultOf(i))
            /\ mstate = "FAILED"
            /\ err # <<>>

\* the number a JSON number literal, or the text of a float64, stands for
NumberOf(lit) == IF lit = "1.0" THEN "1" ELSE lit

RECURSIVE Denotes(_, _)
\* the Go value g is the JSON document j
Denotes(g, j) ==
    CASE j.t = "null" -> g.g = "nil"
      [] j.t = "num" -> g.g = "float64" /\ NumberOf(g.v) = NumberOf(j.v)
      [] j.t = "str" -> g.g = "string" /\ g.v = j.v
      [] j.t = "arr" ->
            /\ g.g = "slice"
            /\ DOMAIN g.e = DOMAIN j.e
            /\ \A i \in DOMAIN j.e : Denotes(g.e[i], j.e[i])
      [] j.t = "obj" ->
            /\ g.g = "map"
            /\ DOMAIN g.m = KeysOf(j.m)
            /\ \A i \in DOMAIN j.m : Denotes(g.m[j.m[i][1]], j.m[i][2])

(* C7: every 200 response {data: X} with X a mapping makes GetSnapshot and *)
(* GetDiff return exactly the document X and a nil error; every 204        *)
(* response makes ApplyDiff return a nil error.                            *)
C7_ReturnsExactlyX ==
    \A i \in DOMAIN responses :
        /\ (i \in {1, 2} /\ WellFormed(responses[i])) =>
              /\ Succeeded(ResultOf(i))
              /\ Denotes(ResultOf(i).val, DataOf(responses[i].Body))
        /\ (i = 3 /\ responses[i].kind = "http" /\ responses[i].StatusCode = 204) =>
              Succeeded(applied)

\* how many times a URL carries the force flag
ForceCount(url) == Cardinality({i \in DOMAIN url : url[i] = ForceFlag})

(* C8: for the target client and the snapshot of the run, the diff request *)
(* built with force=true carries the force flag exactly once, the one      *)
(* built with force=false does not carry it, the two differ in nothing but *)
(* the trailing flag, and the request sent is the one of the run's force.  *)
C8_ForceFlagExactlyOnce ==
    Len(requests) >= 2 =>
        LET rt == GetDiffRequest(targetClient, snapshot.val, TRUE).req
            rf == GetDiffRequest(targetClient, snapshot.val, FALSE).req
        IN /\ ForceCount(rt.URL) = 1
           /\ ForceCount(rf.URL) = 0
           /\ rt.URL = rf.URL \o <<ForceFlag>>
           /\ [rt EXCEPT !.URL = <<>>] = [rf EXCEPT !.URL = <<>>]
           /\ requests[2] = (IF args.force THEN rt ELSE rf)

\* the call of the run that returned an error, and its label
FailedResult ==
    IF Failed(snapshot) THEN snapshot ELSE IF Failed(diff) THEN diff ELSE applied

FailedLabel ==
    IF Failed(snapshot) THEN "failed to get snapshot: "
    ELSE IF Failed(diff) THEN "failed to get diff: "
    ELSE "failed to apply diff: "

Labels == {"failed to get snapshot: ", "failed to get diff: ", "failed to apply diff: "}

(* C9: whenever Migrate returned an error, its text is the label of the    *)
(* step that failed followed by the whole text of that step's error, it    *)
(* holds no other label, and when the step failed on a response with an    *)
(* unexpected status the text holds that status code and the body's bytes. *)
C9_ErrorKeepsLabelAndCause ==
    mstate = "FAILED" =>
        /\ Failed(FailedResult)
        /\ err = <<Txt(FailedLabel)>> \o FailedResult.err
        /\ \A l \in Labels \ {FailedLabel} : ~Contains(err, Txt(l))
        /\ \A i \in DOMAIN responses :
              (/\ i = Len(responses)
               /\ inflight = NoRequest
               /\ Len(requests) = Len(responses)
               /\ responses[i].kind = "http"
               /\ responses[i].StatusCode # ExpectedOf(i)) =>
                  /\ Contains(err, Dec(responses[i].StatusCode))
                  /\ Contains(err, Bytes(responses[i].Body))

\* apply was answered 400 {"error":"conflict"} after snapshot and diff succeeded
C9_Witness ==
    /\ mstate = "FAILED"
    /\ Succeeded(snapshot)
    /\ Succeeded(diff)
    /\ Len(responses) = 3
    /\ responses[3].StatusCode = 400
    /\ responses[3].Body = JsonBody(JObj(<< <<"error", JStr("conflict")>> >>))
    /\ Contains(err, Txt("failed to apply diff: "))

\* the result of the step Migrate is at
CurrentResult(state, s, d, a) ==
    CASE state = "SNAPSHOT_PENDING" -> s
      [] state = "DIFF_PENDING" -> d
      [] state = "APPLY_PENDING" -> a
      [] OTHER -> NoResult

(* C10: every change of Migrate's state is its entry into SNAPSHOT_PENDING, *)
(* one step forward along SNAPSHOT_PENDING, DIFF_PENDING, APPLY_PENDING,    *)
(* DONE when the call of the current step returned a nil error, or a move   *)
(* to FAILED when it returned an error; DONE and FAILED are never left.     *)
C10_StateMachine ==
    [][mstate' # mstate =>
          \/ mstate = "IDLE" /\ mstate' = "SNAPSHOT_PENDING"
          \/ /\ mstate \in {"SNAPSHOT_PENDING", "DIFF_PENDING", "APPLY_PENDING"}
             /\ \/ /\ mstate' = Successor(mstate)
                   /\ Succeeded(CurrentResult(mstate, snapshot', diff', applied'))
                \/ /\ mstate' = "FAILED"
                   /\ Failed(CurrentResult(mstate, snapshot', diff', applied'))]_vars

RECURSIVE SameDocument(_, _)
\* two JSON texts are the same document: members in any order, numbers by value
SameDocument(a, b) ==
    /\ a.t = b.t
    /\ CASE a.t = "null" -> TRUE
         [] a.t = "num" -> NumberOf(a.v) = NumberOf(b.v)
         [] a.t = "str" -> a.v = b.v
         [] a.t = "arr" ->
               /\ DOMAIN a.e = DOMAIN b.e
               /\ \A i \in DOMAIN a.e : SameDocument(a.e[i], b.e[i])
         [] a.t = "obj" ->
               /\ KeysOf(a.m) = KeysOf(b.m)
               /\ \A k \in KeysOf(a.m) :
                     SameDocument(a.m[LastIndex(a.m, k)][2], b.m[LastIndex(b.m, k)][2])

(* C11: the body of the diff request is the document the base answered the *)
(* snapshot request with, the body of the apply request is the document    *)
(* the target answered the diff request with, and a request is sent only   *)
(* after the response to the one before it was received.                   *)
C11_ForwardedUnmodified ==
    /\ Len(requests) >= 2 =>
          /\ Len(responses) >= 1
          /\ WellFormed(responses[1])
          /\ requests[2].HasBody
          /\ SameDocument(requests[2].Body, DataOf(responses[1].Body))
    /\ Len(requests) >= 3 =>
          /\ Len(responses) >= 2
          /\ WellFormed(responses[2])
          /\ requests[3].HasBody
          /\ SameDocument(requests[3].Body, DataOf(responses[2].Body))

\* requests handed to Do that have not come back
Outstanding == {i \in DOMAIN requests : i > Len(responses)}

(* C12: at every point at most one request is outstanding (handed to Do    *)
(* and not yet answered), it is the last one sent and the one the caller   *)
(* is blocked on; so no target request is outstanding together with the    *)
(* snapshot request, nor the apply request together with the diff request. *)
C12_OneInFlight ==
    /\ Len(responses) <= Len(requests)
    /\ Cardinality(Outstanding) <= 1
    /\ \A i \in Outstanding : i = Len(requests) /\ inflight = requests[i]
    /\ Outstanding = {} => inflight = NoRequest
    /\ \A i, j \in Outstanding :
          ~(Addresses(requests[i], SnapshotPath) /\ ~Addresses(requests[j], SnapshotPath))
    /\ \A i, j \in Outstanding :
          ~(Addresses(requests[i], DiffPath) /\ Addresses(requests[j], ApplyPath))

\* the apply request is outstanding, the two before it were answered
C12_Witness ==
    /\ Outstanding = {3}
    /\ Len(responses) = 2
    /\ Addresses(requests[3], ApplyPath)

\* a URL that net/url parses
Parses(url) == \A i \in DOMAIN url : url[i] # CTL

\* the requests one call of a client method handed to Do
RoundTrips(path) == Cardinality(RequestsTo(path))

(* C13 as stated: every call of GetSnapshot, GetDiff or ApplyDiff that has *)
(* returned made exactly one round trip, whatever it returned; a run sends *)
(* at most three requests, at most one to each endpoint.                   *)
C13_ExactlyOneRoundTrip ==
    /\ snapshot # NoResult => RoundTrips(SnapshotPath) = 1
    /\ diff # NoResult => RoundTrips(DiffPath) = 1
    /\ applied # NoResult => RoundTrips(ApplyPath) = 1
    /\ Len(requests) <= 3
    /\ \A p \in {SnapshotPath, DiffPath, ApplyPath} : RoundTrips(p) <= 1

(* C13 amended: every call of GetSnapshot, GetDiff or ApplyDiff that has   *)
(* returned handed exactly one request to Do when its URL parses and none  *)
(* when it does not (it then returned an error); no call hands over a      *)
(* second request; a run sends at most three requests, at most one to each *)
(* endpoint, and a call that has not been made sent none.                  *)
C13_AtMostOneRoundTrip ==
    /\ snapshot # NoResult =>
          IF Parses(baseClient.URL \o baseClient.AccessToken)
          THEN RoundTrips(SnapshotPath) = 1
          ELSE RoundTrips(SnapshotPath) = 0 /\ Failed(snapshot)
    /\ diff # NoResult =>
          IF Parses(targetClient.URL \o targetClient.AccessToken)
          THEN RoundTrips(DiffPath) = 1
          ELSE RoundTrips(DiffPath) = 0 /\ Failed(diff)
    /\ applied # NoResult =>
          IF Parses(targetClient.URL \o targetClient.AccessToken)
          THEN RoundTrips(ApplyPath) = 1
          ELSE RoundTrips(ApplyPath) = 0 /\ Failed(applied)
    /\ Len(requests) <= 3
    /\ \A p \in {SnapshotPath, DiffPath, ApplyPath} : RoundTrips(p) <= 1
    /\ (diff = NoResult /\ mstate # "DIFF_PENDING") => RoundTrips(DiffPath) = 0
    /\ (applied = NoResult /\ mstate # "APPLY_PENDING") => RoundTrips(ApplyPath) = 0

\* GetDiff returned without a round trip (the target address does not parse)
\* after GetSnapshot made its one
C13_Witness ==
    /\ Succeeded(snapshot)
    /\ RoundTrips(SnapshotPath) = 1
    /\ Failed(diff)
    /\ RoundTrips(DiffPath) = 0
    /\ ~Parses(targetClient.URL)

\* the run failed, by an error or a panic, at the snapshot or the diff step
FailedBeforeApply ==
    \/ Failed(snapshot) \/ snapshot.kind = "panic"
    \/ Failed(diff) \/ diff.kind = "panic"

\* the requests sent to an address
RequestsAt(url) ==
    {i \in DOMAIN requests :
        Len(requests[i].URL) >= Len(url) /\ SubSeq(requests[i].URL, 1, Len(url)) = url}

\* a request that changes the schema of the instance it is sent to
Mutating(req) == Addresses(req, ApplyPath)

(* C14: in every run that failed at the snapshot step or at the diff step  *)
(* no mutating (apply) request was sent to the target, and in no run is    *)
(* anything but the bodiless GET of the snapshot sent to the base.         *)
C14_OnlyApplyMutates ==
    /\ FailedBeforeApply =>
          /\ \A i \in DOMAIN requests : ~Mutating(requests[i])
          /\ applied = NoResult
    /\ mstate # "IDLE" =>
          \A i \in RequestsAt(args.baseURL) :
              /\ ~Mutating(requests[i])
              /\ requests[i].Method = "GET"
              /\ ~requests[i].HasBody
              /\ Addresses(requests[i], SnapshotPath)
    /\ \A i \in DOMAIN requests :
          Mutating(requests[i]) =>
              /\ i \in RequestsAt(args.targetURL)
              /\ Succeeded(snapshot)
              /\ Succeeded(diff)

\* the process ended after the target rejected the diff request
C14_Witness ==
    /\ pc = "exit"
    /\ Failed(diff)
    /\ Len(requests) = 2
    /\ responses[2].kind = "http"
    /\ requests[1].Method = "GET"

\* a step of Migrate
MigrateStep ==
    SnapshotSend \/ SnapshotReturn \/ DiffSend \/ DiffReturn \/ ApplySend \/ ApplyReturn

(* C15: a Migrate run that is in neither DONE nor FAILED can take a        *)
(* further step (it waits for no more than the completion of the request   *)
(* it sent), so it ends in DONE or FAILED; it sends at most three          *)
(* requests.                                                               *)
C15_RunTerminates ==
    /\ Len(requests) <= 3
    /\ mstate \notin {"IDLE", "DONE", "FAILED"} => ENABLED MigrateStep

PiecesOf(str) == {str[i] : i \in DOMAIN str}

\* some piece of str stands in the URL of the request
Appears(str, req) == PiecesOf(str) \cap PiecesOf(req.URL) # {}

(* C16: every snapshot request is the base address, the snapshot path and  *)
(* the base token, with nothing of the target's address or token in it;    *)
(* every other request is a diff or apply request that starts with the     *)
(* target address and ends with the target token (and the force flag),     *)
(* with nothing of the base's address or token in it; the base is sent no  *)
(* diff or apply request and the target no snapshot request.               *)
C16_ClientsConfined ==
    \A i \in DOMAIN requests :
        IF Addresses(requests[i], SnapshotPath)
        THEN /\ requests[i].URL = args.baseURL \o <<SnapshotPath>> \o args.baseToken
             /\ ~Appears(args.targetURL, requests[i])
             /\ ~Appears(args.targetToken, requests[i])
             /\ i \in RequestsAt(args.baseURL)
             /\ i \notin RequestsAt(args.targetURL)
        ELSE /\ Addresses(requests[i], DiffPath) \/ Addresses(requests[i], ApplyPath)
             /\ \E p \in {DiffPath, ApplyPath}, f \in {<<>>, <<ForceFlag>>} :
                   requests[i].URL = args.targetURL \o <<p>> \o args.targetToken \o f
             /\ ~Appears(args.baseURL, requests[i])
             /\ ~Appears(args.baseToken, requests[i])
             /\ i \in RequestsAt(args.targetURL)
             /\ i \notin RequestsAt(args.baseURL)

\* all three requests of a run were sent
C16_Witness ==
    /\ Len(requests) = 3
    /\ Appears(args.baseToken, requests[1])
    /\ Appears(args.targetToken, requests[2])
    /\ Appears(args.targetToken, requests[3])

(* C17: the diff request carries the force flag exactly when Migrate was    *)
(* called with force=true; the snapshot request and the apply request are  *)
(* the ones built without regard to force and carry no force flag.         *)
C17_ForceOnlyInDiffRequest ==
    /\ \A i \in RequestsTo(DiffPath) :
          (ForceCount(requests[i].URL) >= 1) <=> args.force
    /\ \A i \in RequestsTo(SnapshotPath) :
          requests[i] = GetSnapshotRequest(baseClient).req
    /\ \A i \in RequestsTo(ApplyPath) :
          requests[i] = ApplyDiffRequest(targetClient, diff.val).req

\* the texts that are a boolean
BooleanTexts ==
    {"1", "t", "T", "TRUE", "true", "True", "0", "f", "F", "FALSE", "false", "False"}

ValidConfiguration == env.loadable /\ env.FORCE \in BooleanTexts

(* C18: with a configuration file that does not load or a FORCE that is     *)
(* missing or no boolean, Migrate is never entered and no request is sent, *)
(* and the process ends with a non-zero status; when Migrate returned an   *)
(* error the process ends with a non-zero status; a zero status is given   *)
(* only after Migrate succeeded.                                           *)
C18_MainGuardsTheCore ==
    /\ ~ValidConfiguration =>
          /\ mstate = "IDLE"
          /\ pc # "migrate"
          /\ requests = <<>>
          /\ inflight = NoRequest
          /\ pc = "exit" => exitCode > 0
    /\ (pc = "exit" /\ mstate = "FAILED") => exitCode > 0
    /\ (pc = "exit" /\ exitCode = 0) => ValidConfiguration /\ mstate = "DONE"
    /\ pc # "exit" => exitCode = -1

\* the process ended on a FORCE that is no boolean, before Migrate
C18_Witness ==
    /\ pc = "exit"
    /\ exitCode = 1
    /\ env.loadable
    /\ env.FORCE = "yes"
    /\ mstate = "IDLE"

====
